---------------------------- MODULE Spec2Model ----------------------------
(***************************************************************************)
(* University timetable optimizer: the solution decoder                    *)
(* (app.py decode_solution), the fitness wrapper                           *)
(* (app.py create_fitness_function), the penalty evaluator                 *)
(* (Timetable.get_fitness), the two searches (PSO.optimize,                *)
(* GeneticAlgorithm.optimize) and the "Generate Timetable" handler of      *)
(* main.                                                                   *)
(*                                                                         *)
(* Numbers of a search vector are kept in half units: the model value h    *)
(* stands for the float h/2, so that round() has halves to decide.         *)
(* A fitness is a record [inf, val]: float('inf') is [inf |-> TRUE].       *)
(***************************************************************************)
EXTENDS Integers, Sequences, FiniteSets, TLC

VARIABLES
    courses,        \* timetable.courses: sequence of Course records
    lecturers,      \* timetable.lecturers: sequence of Lecturer records
    schedule,       \* timetable.schedule: insertion-ordered dict, a sequence of
                    \*   [course_id, slots] entries
    pc,             \* position of the caller
    op,             \* the last call made on the timetable / decoder
    solution,       \* the vector argument of the last call
    ret,            \* what the last call returned or raised
    decoded,        \* the dict returned by the last decode_solution call
    slotsDecoded,   \* TimeSlot objects constructed by the last call
    algorithm,      \* main: the selectbox, "PSO" or "Genetic Algorithm"
    n_particles,    \* PSO.n_particles
    n_iterations,   \* PSO.n_iterations
    particles,      \* PSO.particles: sequence of Particle records
    global_best_position,   \* PSO.global_best_position: None or a vector
    global_best_fitness,    \* PSO.global_best_fitness
    iteration,      \* PSO.optimize: the loop variable of line 70
    pidx,           \* PSO.optimize: the particle the loop of line 74 is at
    config,         \* GeneticAlgorithm.config
    population,     \* GeneticAlgorithm.population: sequence of Individual records
    new_population, \* GeneticAlgorithm.optimize: the local of line 82
    best_individual,    \* GeneticAlgorithm.best_individual: None or an Individual
    best_fitness,   \* GeneticAlgorithm.best_fitness
    generation,     \* GeneticAlgorithm.optimize: the loop variable of line 81
    evals,          \* fitness_func calls made by the running optimize
    all_inf,        \* every one of them returned float('inf')
    min_eval,       \* the least value they returned
    best_solution,  \* main: what optimize returned, None or a vector
    raised,         \* the exception that left optimize, "" for none
    report,         \* main: the message the handler ends with
    saved_timetable,    \* st.session_state.saved_timetable
    again,          \* optimize was called a second time on the same optimizer
    confirm_delete_course,  \* st.session_state.confirm_delete_course
    clicks          \* manage_data: the courses' serial numbers, the serials whose
                    \* delete button showed the warning, the serials handed out

timetableVars == <<courses, lecturers, schedule>>
callVars == <<op, solution, ret, decoded, slotsDecoded>>
psoVars == <<n_particles, n_iterations, particles, global_best_position,
             global_best_fitness, iteration, pidx>>
gaVars == <<config, population, new_population, best_individual, best_fitness,
            generation>>
outerVars == <<again, confirm_delete_course, clicks>>
runVars == <<algorithm, outerVars, evals, all_inf, min_eval, best_solution, raised, report,
             saved_timetable>>
vars == <<timetableVars, pc, callVars, psoVars, gaVars, runVars>>

---------------------------------------------------------------------------
(* Program constants *)

\* app.py:105  "% 5"
DAYS == 5
\* app.py:106  "% 8"
PERIODS == 8
\* app.py:107  "% 8"
ROOMS == 8
\* timetable.py:55 and :72
MAJOR_PENALTY == 100
\* timetable.py:59 and :76
CONFLICT_PENALTY == 1000
\* timetable.py:86
DAY_SPLIT_PENALTY == 50
\* timetable.py:88
GAP_PENALTY == 30

\* pso.py:21, :22 and :23: the defaults of c1, c2 and v_max
C1 == 2
C2 == 2
V_MAX == 4
\* app.py:399, :405: w_start and w_end with both sliders at their upper end 1.0
W_START == 1
W_END == 1

(* Bounds of the model *)

\* longest vector handed to decode_solution / fitness_function
MaxVecLen == 9
\* largest n_particles and n_iterations of a PSO run
MaxParticles == 2
MaxIterations == 2
\* largest population_size, n_generations, tournament_size, elite_size of a GA run
MaxPopulation == 2
MaxGenerations == 2
MaxTournament == 2
MaxElite == 1
\* longest course list and most courses ever held in a Manage Data session
MaxCourses == 3
MaxBorn == 4

\* raw vector entries, in half units: -1.5 and 10.5
RawVals == {-3, 21}

\* the slots a caller assigns directly to timetable.schedule
AssignDays == {0, 1}
AssignPeriods == {0, 1, 2}
AssignRooms == {0, 1, 2, 3}

---------------------------------------------------------------------------
(* Fitness values *)

FInf == [inf |-> TRUE, val |-> 0]
FVal(n) == [inf |-> FALSE, val |-> n]
\* Python's a < b on floats, float('inf') included
FLess(a, b) == ~a.inf /\ (b.inf \/ a.val < b.val)
\* the smaller of two floats, the first on a tie
FMin(a, b) == IF FLess(b, a) THEN b ELSE a

(* Python's None and a present value *)
None == [some |-> FALSE, v |-> <<>>]
Some(x) == [some |-> TRUE, v |-> x]
\* a key st.session_state holds with a value, and a key it does not hold
Held(x) == [present |-> TRUE, value |-> x]
Absent == [present |-> FALSE, value |-> None]

(* Call results *)
NoRet == [kind |-> "none", fit |-> FVal(0), err |-> ""]
Returned(f) == [kind |-> "return", fit |-> f, err |-> ""]
Raised(e) == [kind |-> "raise", fit |-> FVal(0), err |-> e]

---------------------------------------------------------------------------
(* Domain model: timetable.py Course, Lecturer, TimeSlot *)

Course(id, duration, lecturer, required_rooms) ==
    [id |-> id, duration |-> duration, lecturer |-> lecturer,
     required_rooms |-> required_rooms]

Lecturer(id, available_slots) == [id |-> id, available_slots |-> available_slots]

TimeSlot(day, period, room) == [day |-> day, period |-> period, room |-> room]

\* The data of tests/test_timetable.py
Smith == Lecturer(0, {<<0, 0>>, <<0, 1>>, <<1, 0>>})
Jones == Lecturer(1, {<<0, 2>>, <<1, 1>>, <<1, 2>>})
Math == Course(0, 2, 0, {0, 1})
Physics == Course(1, 1, 1, {1, 2})

\* The input sets the model runs on.  A lecturer id of 7 is in no lecturer list.
CfgTest == [courses |-> <<Math, Physics>>, lecturers |-> <<Smith, Jones>>]
CfgShared == [courses |-> <<Math, Course(1, 1, 0, {1, 2})>>,
              lecturers |-> <<Smith, Jones>>]
CfgSmall == [courses |-> <<Math>>, lecturers |-> <<Smith>>]
CfgSmallBad == [courses |-> <<Course(0, 1, 0, {0, 1}), Course(1, 1, 7, {1, 2})>>,
                lecturers |-> <<Smith>>]
Configs == {CfgTest, CfgShared, CfgSmall, CfgSmallBad}

---------------------------------------------------------------------------
(* Helpers *)

Min(S) == CHOOSE x \in S : \A y \in S : x <= y

\* Python: next(c for c in cs if c.id == id); "found" is FALSE for StopIteration
Matches(xs, id) == {i \in 1..Len(xs) : xs[i].id = id}
Found(xs, id) == Matches(xs, id) # {}
First(xs, id) == xs[Min(Matches(xs, id))]

\* Python round() of the float h/2: ties go to the even integer
PyRound(h) ==
    IF h % 2 = 0 THEN h \div 2
    ELSE LET lo == (h - 1) \div 2
         IN IF lo % 2 = 0 THEN lo ELSE lo + 1

\* C's remainder, whose sign follows the dividend
TruncMod(x, n) == IF x >= 0 THEN x % n ELSE 0 - ((0 - x) % n)

\* Python's x % n for n > 0: the result is in 0..n-1 for a negative x too
PyMod(x, n) == x % n

\* dict[key] = value on an insertion-ordered dict
DictSet(d, k, v) ==
    IF \E i \in 1..Len(d) : d[i].course_id = k
    THEN [i \in 1..Len(d) |-> IF d[i].course_id = k
                              THEN [course_id |-> k, slots |-> v] ELSE d[i]]
    ELSE Append(d, [course_id |-> k, slots |-> v])

\* key=lambda x: x.day, the period left out of the key
DayOnlyLess(a, b) == a.day < b.day

\* key=lambda x: (x.day, x.period), compared as tuples
KeyLess(a, b) == a.day < b.day \/ (a.day = b.day /\ a.period < b.period)

RECURSIVE InsertSlot(_, _)
\* stable insertion: x goes behind every element whose key is <= its own
InsertSlot(sorted, x) ==
    IF sorted = <<>> THEN <<x>>
    ELSE IF KeyLess(x, sorted[Len(sorted)])
         THEN Append(InsertSlot(SubSeq(sorted, 1, Len(sorted) - 1), x),
                     sorted[Len(sorted)])
         ELSE Append(sorted, x)

RECURSIVE SortSlots(_)
\* list.sort(key=...) is stable
SortSlots(slots) ==
    IF slots = <<>> THEN <<>>
    ELSE InsertSlot(SortSlots(SubSeq(slots, 1, Len(slots) - 1)), slots[Len(slots)])

RECURSIVE SumDurations(_, _)
SumDurations(cs, i) ==
    IF i > Len(cs) THEN 0 ELSE cs[i].duration * 3 + SumDurations(cs, i + 1)

\* sum(course.duration * 3 for course in courses)
RequiredLength(cs) == SumDurations(cs, 1)

---------------------------------------------------------------------------
(* app.py decode_solution *)

RECURSIVE DecodeSlots(_, _, _, _)
\* the inner loop, lines 101-111: k sessions of one course are still to decode
DecodeSlots(sol, k, current_index, slots) ==
    IF k = 0 THEN [raised |-> FALSE, slots |-> slots, current_index |-> current_index]
    ELSE IF current_index + 2 >= Len(sol)
         THEN [raised |-> TRUE, slots |-> slots, current_index |-> current_index]
         ELSE LET day == PyMod(PyRound(sol[current_index + 1]), DAYS)
                  period == PyMod(PyRound(sol[current_index + 2]), PERIODS)
                  room == PyMod(PyRound(sol[current_index + 3]), ROOMS)
              IN DecodeSlots(sol, k - 1, current_index + 3,
                             Append(slots, TimeSlot(day, period, room)))

RECURSIVE DecodeCourses(_, _, _, _)
\* the outer loop, lines 99-114
DecodeCourses(sol, cs, c, acc) ==
    IF c > Len(cs) THEN acc
    ELSE LET r == DecodeSlots(sol, cs[c].duration, acc.current_index, <<>>)
             n == acc.nslots + Len(r.slots)
         IN IF r.raised
            THEN [kind |-> "ValueError: too short", timetable |-> acc.timetable,
                  current_index |-> r.current_index, nslots |-> n]
            ELSE DecodeCourses(sol, cs, c + 1,
                     [kind |-> "return",
                      timetable |-> DictSet(acc.timetable, cs[c].id, SortSlots(r.slots)),
                      current_index |-> r.current_index, nslots |-> n])

\* a decoder that leaves the length to the per-slot check of line 102
DecodeUnchecked(sol, cs) ==
    DecodeCourses(sol, cs, 1,
        [kind |-> "return", timetable |-> <<>>, current_index |-> 0, nslots |-> 0])

\* decode_solution(solution, courses): kind is "return" or the error raised
decode_solution(sol, cs) ==
    IF Len(sol) # RequiredLength(cs)
    THEN [kind |-> "ValueError: length", timetable |-> <<>>,
          current_index |-> 0, nslots |-> 0]
    ELSE DecodeCourses(sol, cs, 1,
             [kind |-> "return", timetable |-> <<>>, current_index |-> 0, nslots |-> 0])

---------------------------------------------------------------------------
(* timetable.py Timetable.get_fitness *)

\* lines 54-55 with the membership test inverted
InvalidRoomInverted(slot, course) ==
    IF slot.room \in course.required_rooms THEN MAJOR_PENALTY ELSE 0

\* lines 54-55: the charge for a room outside the course's required rooms
InvalidRoomCharge(slot, course) ==
    IF slot.room \notin course.required_rooms THEN MAJOR_PENALTY ELSE 0

\* lines 58-59 and 75-76: "if key in room_schedule" looks at the key alone
SeenBefore(key, seen, course_id) == key \in DOMAIN seen

\* room_schedule[key] = course_id
MapSet(m, k, v) == [x \in DOMAIN m \cup {k} |-> IF x = k THEN v ELSE m[x]]

EmptyMap == [x \in {} |-> 0]

RECURSIVE RoomSlots(_, _, _, _)
\* lines 53-60: the slots of one course, from index i on
RoomSlots(slots, i, course, acc) ==
    IF i > Len(slots) THEN acc
    ELSE LET slot == slots[i]
             key == <<slot.day, slot.period, slot.room>>
             p1 == InvalidRoomCharge(slot, course)
             p2 == IF SeenBefore(key, acc.seen, course.id) THEN CONFLICT_PENALTY ELSE 0
         IN RoomSlots(slots, i + 1, course,
                [acc EXCEPT !.penalties = @ + p1 + p2,
                            !.seen = MapSet(@, key, course.id)])

RECURSIVE RoomLoop(_, _, _, _)
\* lines 48-60: every entry of the schedule in the dict's iteration order
RoomLoop(sched, e, cs, acc) ==
    IF e > Len(sched) THEN acc
    ELSE IF ~Found(cs, sched[e].course_id) THEN [acc EXCEPT !.raised = TRUE]
    ELSE RoomLoop(sched, e + 1, cs,
             RoomSlots(sched[e].slots, 1, First(cs, sched[e].course_id),
                       acc))

RECURSIVE LecturerSlots(_, _, _, _, _)
\* lines 69-77
LecturerSlots(slots, i, course, lecturer, acc) ==
    IF i > Len(slots) THEN acc
    ELSE LET slot == slots[i]
             key == <<slot.day, slot.period, course.lecturer>>
             p1 == IF <<slot.day, slot.period>> \notin lecturer.available_slots
                   THEN MAJOR_PENALTY ELSE 0
             p2 == IF SeenBefore(key, acc.seen, course.id) THEN CONFLICT_PENALTY ELSE 0
         IN LecturerSlots(slots, i + 1, course, lecturer,
                [acc EXCEPT !.penalties = @ + p1 + p2,
                            !.seen = MapSet(@, key, course.id)])

RECURSIVE LecturerLoopSkipping(_, _, _, _, _)
\* lines 63-77 with next(..., None) and a course without lecturer passed over
LecturerLoopSkipping(sched, e, cs, ls, acc) ==
    IF e > Len(sched) THEN acc
    ELSE IF ~Found(cs, sched[e].course_id) THEN [acc EXCEPT !.raised = TRUE]
    ELSE LET course == First(cs, sched[e].course_id)
         IN IF ~Found(ls, course.lecturer)
            THEN LecturerLoopSkipping(sched, e + 1, cs, ls, acc)
            ELSE LecturerLoopSkipping(sched, e + 1, cs, ls,
                     LecturerSlots(sched[e].slots, 1, course,
                                   First(ls, course.lecturer), acc))

RECURSIVE LecturerLoop(_, _, _, _, _)
\* lines 63-77
LecturerLoop(sched, e, cs, ls, acc) ==
    IF e > Len(sched) THEN acc
    ELSE IF ~Found(cs, sched[e].course_id) THEN [acc EXCEPT !.raised = TRUE]
    ELSE LET course == First(cs, sched[e].course_id)
         IN IF ~Found(ls, course.lecturer) THEN [acc EXCEPT !.raised = TRUE]
            ELSE LecturerLoop(sched, e + 1, cs, ls,
                     LecturerSlots(sched[e].slots, 1, course,
                                   First(ls, course.lecturer), acc))

\* lines 85-88 with "if" for "elif": a day split is charged as a gap too
PairChargeBoth(prev_slot, slot) ==
    (IF slot.day # prev_slot.day THEN DAY_SPLIT_PENALTY ELSE 0)
    + (IF slot.period # prev_slot.period + 1 THEN GAP_PENALTY ELSE 0)

\* lines 85-88: one pair of neighbours in the sorted list
PairCharge(prev_slot, slot) ==
    IF slot.day # prev_slot.day THEN DAY_SPLIT_PENALTY
    ELSE IF slot.period # prev_slot.period + 1 THEN GAP_PENALTY
    ELSE 0

RECURSIVE ContinuityPairs(_, _)
\* lines 83-89: prev_slot = slots[i-1], slot = slots[i]
ContinuityPairs(slots, i) ==
    IF i > Len(slots) THEN 0
    ELSE PairCharge(slots[i - 1], slots[i]) + ContinuityPairs(slots, i + 1)

\* line 82 left out: the list is walked in the order it has
KeepOrder(slots) == slots

\* line 82: slots.sort(key=lambda x: (x.day, x.period)), in place
SortInPlace(slots) == SortSlots(slots)

RECURSIVE ContinuityLoop(_, _, _)
\* lines 80-89; the sort of line 82 changes the schedule itself
ContinuityLoop(sched, e, acc) ==
    IF e > Len(sched) THEN acc
    ELSE IF Len(sched[e].slots) > 1
         THEN LET sorted == SortInPlace(sched[e].slots)
              IN ContinuityLoop(sched, e + 1,
                     [penalties |-> acc.penalties + ContinuityPairs(sorted, 2),
                      sched |-> [acc.sched EXCEPT ![e].slots = sorted]])
         ELSE ContinuityLoop(sched, e + 1, acc)

\* get_fitness(): [raised, val, sched]; raised is the StopIteration of a failed
\* next(...), sched is self.schedule as the call leaves it
get_fitness(sched, cs, ls) ==
    LET r1 == RoomLoop(sched, 1, cs,
                  [penalties |-> 0, seen |-> EmptyMap, raised |-> FALSE])
    IN IF r1.raised THEN [raised |-> TRUE, val |-> 0, sched |-> sched]
       ELSE LET r2 == LecturerLoop(sched, 1, cs, ls,
                          [penalties |-> r1.penalties, seen |-> EmptyMap,
                           raised |-> FALSE])
            IN IF r2.raised THEN [raised |-> TRUE, val |-> 0, sched |-> sched]
               ELSE LET r3 == ContinuityLoop(sched, 1,
                                  [penalties |-> r2.penalties, sched |-> sched])
                    IN [raised |-> FALSE, val |-> r3.penalties, sched |-> r3.sched]

---------------------------------------------------------------------------
(* app.py create_fitness_function: the closure over the timetable *)

\* the closure without its try/except: a failed evaluation is raised to the caller
FitnessUnguarded(sol, cs, ls, sched) ==
    IF Len(sol) # RequiredLength(cs)
    THEN [ret |-> Raised("ValueError: length"), sched |-> sched, nslots |-> 0]
    ELSE LET d == decode_solution(sol, cs)
         IN IF d.kind # "return"
            THEN [ret |-> Raised(d.kind), sched |-> sched, nslots |-> d.nslots]
            ELSE LET f == get_fitness(d.timetable, cs, ls)
                 IN IF f.raised
                    THEN [ret |-> Raised("StopIteration"), sched |-> f.sched,
                          nslots |-> d.nslots]
                    ELSE [ret |-> Returned(FVal(f.val)), sched |-> f.sched,
                          nslots |-> d.nslots]

\* fitness_function(solution), lines 80-88: [ret, sched, nslots] with sched the
\* timetable.schedule the call leaves behind
fitness_function(sol, cs, ls, sched) ==
    IF Len(sol) # RequiredLength(cs)
    THEN [ret |-> Raised("ValueError: length"), sched |-> sched, nslots |-> 0]
    ELSE LET d == decode_solution(sol, cs)
         IN IF d.kind # "return"
            THEN [ret |-> Returned(FInf), sched |-> sched, nslots |-> d.nslots]
            ELSE LET f == get_fitness(d.timetable, cs, ls)
                 IN IF f.raised
                    THEN [ret |-> Returned(FInf), sched |-> f.sched,
                          nslots |-> d.nslots]
                    ELSE [ret |-> Returned(FVal(f.val)), sched |-> f.sched,
                          nslots |-> d.nslots]

---------------------------------------------------------------------------
(* The callers of the decoder and the evaluator *)

Perms(n) == {f \in [1..n -> 1..n] : \A i, j \in 1..n : f[i] = f[j] => i = j}

AssignSlots ==
    {TimeSlot(d, p, r) : d \in AssignDays, p \in AssignPeriods, r \in AssignRooms}

RECURSIVE SlotLists(_, _)
\* one list of cs[i].duration slots for every course from index i on
SlotLists(cs, i) ==
    IF i > Len(cs) THEN {<<>>}
    ELSE {<<h>> \o t : h \in [1..cs[i].duration -> AssignSlots],
                       t \in SlotLists(cs, i + 1)}

\* the dicts a caller may assign: every course once, in any insertion order
Schedules(cs) ==
    {[i \in 1..Len(cs) |-> [course_id |-> cs[p[i]].id, slots |-> sl[p[i]]]] :
        p \in Perms(Len(cs)), sl \in SlotLists(cs, 1)}

Vectors == UNION {[1..n -> RawVals] : n \in 0..MaxVecLen}

\* timetable.schedule before the call: {} of the constructor (timetable.py:41),
\* or what an earlier fitness_function call on a full vector left there
EarlierVector(cs) == [i \in 1..RequiredLength(cs) |-> 21]
InitSchedules(cfg) ==
    {<<>>, fitness_function(EarlierVector(cfg.courses), cfg.courses,
                            cfg.lecturers, <<>>).sched}

\* no optimizer exists yet: the fields as PSO.__init__ (pso.py:31-36) and
\* GeneticAlgorithm.__init__ (genetic.py:26-29) set them
SearchIdle ==
    /\ algorithm = "PSO"
    /\ n_particles = 0
    /\ n_iterations = 0
    /\ particles = <<>>
    /\ global_best_position = None
    /\ global_best_fitness = FInf
    /\ iteration = 0
    /\ pidx = 0
    /\ config = [population_size |-> 0, n_generations |-> 0, mutation_rate |-> 0,
                 tournament_size |-> 0, elite_size |-> 0]
    /\ population = <<>>
    /\ new_population = <<>>
    /\ best_individual = None
    /\ best_fitness = FInf
    /\ generation = 0
    /\ evals = 0
    /\ all_inf = TRUE
    /\ min_eval = FInf
    /\ best_solution = None
    /\ raised = ""
    /\ report = ""
    /\ saved_timetable = <<>>
    /\ again = FALSE
    /\ confirm_delete_course = Absent
    /\ clicks = [serials |-> <<>>, warned |-> {}, born |-> 0]

Init ==
    \E cfg \in Configs :
        /\ courses = cfg.courses
        /\ lecturers = cfg.lecturers
        /\ schedule \in InitSchedules(cfg)
        /\ pc = "idle"
        /\ op = "init"
        /\ solution = <<>>
        /\ ret = NoRet
        /\ decoded = <<>>
        /\ slotsDecoded = 0
        /\ SearchIdle

\* timetable.schedule = {...}, as tests/test_timetable.py does
AssignSchedule ==
    /\ pc = "idle"
    /\ \E s \in Schedules(courses) : schedule' = s
    /\ pc' = "assigned"
    /\ op' = "assign"
    /\ UNCHANGED <<courses, lecturers, solution, ret, decoded, slotsDecoded>>
    /\ UNCHANGED <<psoVars, gaVars, runVars>>

\* timetable.get_fitness()
CallGetFitness ==
    /\ pc \in {"idle", "assigned"}
    /\ LET f == get_fitness(schedule, courses, lecturers)
       IN /\ schedule' = f.sched
          /\ ret' = IF f.raised THEN Raised("StopIteration")
                    ELSE Returned(FVal(f.val))
    /\ pc' = "scored"
    /\ op' = "get_fitness"
    /\ UNCHANGED <<courses, lecturers, solution, decoded, slotsDecoded>>
    /\ UNCHANGED <<psoVars, gaVars, runVars>>

\* the attributes an instance of Timetable has: the fields of __init__ (lines
\* 37-41) and the one method of the class besides it (line 43)
TimetableAttributes == {"courses", "lecturers", "rooms", "schedule", "get_fitness"}

\* timetable.is_valid(), as tests/test_timetable.py calls it after assigning a
\* schedule: the lookup of an attribute the object lacks raises AttributeError
CallIsValid ==
    /\ pc = "assigned"
    /\ "is_valid" \notin TimetableAttributes
    /\ ret' = Raised("AttributeError")
    /\ pc' = "validated"
    /\ op' = "is_valid"
    /\ UNCHANGED <<timetableVars, solution, decoded, slotsDecoded>>
    /\ UNCHANGED <<psoVars, gaVars, runVars>>

\* decode_solution(v, courses)
CallDecode ==
    /\ pc = "idle"
    /\ \E v \in Vectors :
         LET d == decode_solution(v, courses)
         IN /\ solution' = v
            /\ ret' = IF d.kind = "return" THEN Returned(FVal(0)) ELSE Raised(d.kind)
            /\ decoded' = IF d.kind = "return" THEN d.timetable ELSE <<>>
            /\ slotsDecoded' = d.nslots
    /\ pc' = "done"
    /\ op' = "decode_solution"
    /\ UNCHANGED <<courses, lecturers, schedule>>
    /\ UNCHANGED <<psoVars, gaVars, runVars>>

\* create_fitness_function(timetable)(v)
CallFitnessFunction ==
    /\ pc = "idle"
    /\ \E v \in Vectors :
         LET r == fitness_function(v, courses, lecturers, schedule)
         IN /\ solution' = v
            /\ ret' = r.ret
            /\ schedule' = r.sched
            /\ slotsDecoded' = r.nslots
    /\ pc' = "done"
    /\ op' = "fitness_function"
    /\ UNCHANGED <<courses, lecturers, decoded>>
    /\ UNCHANGED <<psoVars, gaVars, runVars>>

Next ==
    \/ AssignSchedule
    \/ CallGetFitness
    \/ CallIsValid
    \/ CallDecode
    \/ CallFitnessFunction

Spec == Init /\ [][Next]_vars

---------------------------------------------------------------------------
(* pso.py PSO *)

VAdd(a, b) == [i \in 1..Len(a) |-> a[i] + b[i]]
VSub(a, b) == [i \in 1..Len(a) |-> a[i] - b[i]]
\* np.clip(v, lo, hi)
Clip(v, lo, hi) ==
    [i \in 1..Len(v) |-> IF v[i] < lo THEN lo ELSE IF v[i] > hi THEN hi ELSE v[i]]

Particle(position, velocity, best_position, best_fitness_) ==
    [position |-> position, velocity |-> velocity,
     best_position |-> best_position, best_fitness |-> best_fitness_]

\* line 72: self.w; exact while (w_start - w_end) * iteration divides by n
InertiaWeight(it, n) == W_START - ((W_START - W_END) * it) \div n

\* lines 76-82 in half units; r1h, r2h are r1, r2 in half units, gbest a vector
NewVelocity(particle, gbest, r1h, r2h, w) ==
    LET cognitive == [i \in 1..Len(particle.position) |->
                         (C1 * r1h * (particle.best_position[i] - particle.position[i]))
                             \div 2]
        social == [i \in 1..Len(particle.position) |->
                      (C2 * r2h * (gbest[i] - particle.position[i])) \div 2]
        inertia == [i \in 1..Len(particle.velocity) |-> w * particle.velocity[i]]
    IN Clip(VAdd(VAdd(inertia, cognitive), social), 0 - 2 * V_MAX, 2 * V_MAX)

\* the draws of the model, in half units: uniform(0, 5) gives 0.0 for a day and
\* a room and 0.0 or 2.0 for a period, uniform(-v_max, v_max) gives 0.0 for a day
\* and a room and -1.0 or 1.0 for a period, random() gives 0.0 or 0.5
PosDays == {0}
PosPeriods == {0, 4}
PosRooms == {0}
PosDomain(i) ==
    IF i % 3 = 1 THEN PosDays ELSE IF i % 3 = 2 THEN PosPeriods ELSE PosRooms
PosVals == UNION {PosDomain(i) : i \in 1..3}
VelDays == {0}
VelPeriods == {-2, 2}
VelRooms == {0}
VelDomain(i) ==
    IF i % 3 = 1 THEN VelDays ELSE IF i % 3 = 2 THEN VelPeriods ELSE VelRooms
VelVals == UNION {VelDomain(i) : i \in 1..3}
RCoeffs == {0, 1}
InitPositions(n) == {x \in [1..n -> PosVals] : \A i \in 1..n : x[i] \in PosDomain(i)}
InitVelocities(n) == {v \in [1..n -> VelVals] : \A i \in 1..n : v[i] \in VelDomain(i)}

---------------------------------------------------------------------------
(* genetic.py GeneticAlgorithm *)

\* Individual.__init__, lines 18-20: the fitness starts at float('inf')
Individual(chromosome) == [chromosome |-> chromosome, fitness |-> FInf]

\* the draws of the model for randint(0, 5), randint(0, 8), randint(0, 8);
\* a gene g is the float g.0, 2*g in half units
GeneDays == {0}
GenePeriods == {0, 7}
GeneRooms == {0}
GeneDomain(i) ==
    LET d == IF i % 3 = 1 THEN GeneDays ELSE IF i % 3 = 2 THEN GenePeriods ELSE GeneRooms
    IN {2 * g : g \in d}

\* lines 38-42, for a solution_size that is a multiple of 3
GeneVals == UNION {GeneDomain(i) : i \in 1..3}
InitChromosomes(n) == {c \in [1..n -> GeneVals] : \A i \in 1..n : c[i] \in GeneDomain(i)}

RECURSIVE InsertByFitness(_, _)
InsertByFitness(sorted, x) ==
    IF sorted = <<>> THEN <<x>>
    ELSE IF FLess(x.fitness, sorted[Len(sorted)].fitness)
         THEN Append(InsertByFitness(SubSeq(sorted, 1, Len(sorted) - 1), x),
                     sorted[Len(sorted)])
         ELSE Append(sorted, x)

RECURSIVE SortByFitness(_)
\* line 85: sorted(self.population, key=lambda x: x.fitness), stable
SortByFitness(pop) ==
    IF pop = <<>> THEN <<>>
    ELSE InsertByFitness(SortByFitness(SubSeq(pop, 1, Len(pop) - 1)), pop[Len(pop)])

\* line 86: Individual(x.chromosome.copy()) for x in sorted_pop[:elite_size]
Elites(pop, elite_size) ==
    LET sorted_pop == SortByFitness(pop)
        k == IF elite_size < Len(pop) THEN elite_size ELSE Len(pop)
    IN [i \in 1..k |-> Individual(sorted_pop[i].chromosome)]

\* lines 56-57: the members random.sample can pick, and what min() can return:
\* the sample's order is random, so any member of least fitness may come first
Tournaments(pop, k) == {S \in SUBSET (1..Len(pop)) : Cardinality(S) = k}
Winners(pop, S) == {i \in S : \A j \in S : ~FLess(pop[j].fitness, pop[i].fitness)}

\* lines 62-63 as an arithmetic crossover: the mean of the two parents' genes
CrossoverBlend(mask, parent1, parent2) ==
    [i \in 1..Len(mask) |-> (parent1.chromosome[i] + parent2.chromosome[i]) \div 2]

\* lines 62-63: np.where(mask, parent1.chromosome, parent2.chromosome)
Crossover(mask, parent1, parent2) ==
    [i \in 1..Len(mask) |-> IF mask[i] THEN parent1.chromosome[i]
                            ELSE parent2.chromosome[i]]

\* lines 68-74: flip[i] says random() < mutation_rate came out true for gene i,
\* fresh[i] is the randint drawn for it
Mutate(chromosome, flip, fresh) ==
    [i \in 1..Len(chromosome) |-> IF flip[i] THEN fresh[i] ELSE chromosome[i]]

\* random() < mutation_rate: never for 0.0, always for 1.0 (mutation_rate is
\* kept in percent)
Flips(n, mutation_rate) ==
    IF mutation_rate = 0 THEN {[i \in 1..n |-> FALSE]}
    ELSE IF mutation_rate = 100 THEN {[i \in 1..n |-> TRUE]}
    ELSE [1..n -> BOOLEAN]
MutationRates == {0, 50, 100}

\* lines 90-93: the chromosomes one pass can give the child, over every draw of
\* the two tournaments, the crossover mask and the mutation
Parents(pop, k) == UNION {Winners(pop, t) : t \in Tournaments(pop, k)}
Crossed(pop, cfg, n) ==
    UNION {{Crossover(mask, pop[p1], pop[p2]) : mask \in [1..n -> BOOLEAN]} :
           p1 \in Parents(pop, cfg.tournament_size),
           p2 \in Parents(pop, cfg.tournament_size)}
Offspring(pop, cfg, n) ==
    UNION {{Mutate(child, flip, fresh) :
               flip \in Flips(n, cfg.mutation_rate),
               fresh \in InitChromosomes(n)} :
           child \in Crossed(pop, cfg, n)}

---------------------------------------------------------------------------
(* app.py main, "Generate Timetable" (lines 452-493), around the two searches *)

\* the input sets of a run: one course of one session, its lecturer in the
\* lecturer list or not
CfgOne == [courses |-> <<Course(0, 1, 0, {0, 1})>>, lecturers |-> <<Smith>>]
CfgOneBad == [courses |-> <<Course(0, 1, 7, {0, 1})>>, lecturers |-> <<Smith>>]
RunConfigs == {CfgOne, CfgOneBad}

GAConfigs ==
    [population_size : 1..MaxPopulation, n_generations : 0..MaxGenerations,
     mutation_rate : MutationRates, tournament_size : 1..MaxTournament,
     elite_size : 0..MaxElite]

\* line 318: solution_size = sum(course.duration * 3 for course in courses)
solution_size == RequiredLength(courses)

\* the page before the button is clicked: the data is loaded, the widgets are set
InitRun ==
    /\ \E cfg \in RunConfigs : courses = cfg.courses /\ lecturers = cfg.lecturers
    /\ schedule = <<>>
    /\ pc = "start"
    /\ op = "init"
    /\ solution = <<>>
    /\ ret = NoRet
    /\ decoded = <<>>
    /\ slotsDecoded = 0
    /\ algorithm \in {"PSO", "Genetic Algorithm"}
    /\ \/ /\ algorithm = "PSO"
          /\ n_particles \in 1..MaxParticles
          /\ n_iterations \in 0..MaxIterations
          /\ config = [population_size |-> 0, n_generations |-> 0, mutation_rate |-> 0,
                       tournament_size |-> 0, elite_size |-> 0]
       \/ /\ algorithm = "Genetic Algorithm"
          /\ n_particles = 0
          /\ n_iterations = 0
          /\ config \in GAConfigs
    /\ particles = <<>>
    /\ global_best_position = None
    /\ global_best_fitness = FInf
    /\ iteration = 0
    /\ pidx = 0
    /\ population = <<>>
    /\ new_population = <<>>
    /\ best_individual = None
    /\ best_fitness = FInf
    /\ generation = 0
    /\ evals = 0
    /\ all_inf = TRUE
    /\ min_eval = FInf
    /\ best_solution = None
    /\ raised = ""
    /\ report = ""
    /\ saved_timetable = <<>>
    /\ again = FALSE
    /\ confirm_delete_course = Absent
    /\ clicks = [serials |-> <<>>, warned |-> {}, born |-> 0]

\* main 457-466, PSO.__init__ and PSO.optimize 66-68 up to the loop of line 41
StartPSO ==
    /\ pc = "start"
    /\ algorithm = "PSO"
    /\ particles' = <<>>
    /\ global_best_position' = None
    /\ global_best_fitness' = FInf
    /\ pc' = "pso_init"
    /\ UNCHANGED <<timetableVars, callVars, gaVars, runVars, n_particles,
                   n_iterations, iteration, pidx>>

\* initialize_particles, lines 41-62: one pass of the loop
PsoInitParticle ==
    /\ pc = "pso_init"
    /\ Len(particles) < n_particles
    /\ \E position \in InitPositions(solution_size),
          velocity \in InitVelocities(solution_size) :
         LET r == fitness_function(position, courses, lecturers, schedule)
             fitness == r.ret.fit
         IN IF r.ret.kind = "raise"
            THEN /\ raised' = r.ret.err
                 /\ pc' = "raised"
                 /\ UNCHANGED <<schedule, particles, global_best_position,
                                global_best_fitness, evals, all_inf, min_eval>>
            ELSE /\ schedule' = r.sched
                 /\ evals' = evals + 1
                 /\ all_inf' = (all_inf /\ fitness.inf)
                 /\ min_eval' = FMin(min_eval, fitness)
                 /\ particles' = Append(particles,
                                     Particle(position, velocity, position, fitness))
                 /\ IF FLess(fitness, global_best_fitness)
                    THEN /\ global_best_fitness' = fitness
                         /\ global_best_position' = Some(position)
                    ELSE UNCHANGED <<global_best_fitness, global_best_position>>
                 /\ UNCHANGED <<pc, raised>>
    /\ UNCHANGED <<courses, lecturers, callVars, gaVars, n_particles, n_iterations,
                   iteration, pidx, algorithm, outerVars, best_solution, report,
                   saved_timetable>>

\* the loop of line 41 is through; optimize enters the loop of line 70
PsoInitDone ==
    /\ pc = "pso_init"
    /\ Len(particles) = n_particles
    /\ pc' = "pso_loop"
    /\ iteration' = 0
    /\ pidx' = 1
    /\ UNCHANGED <<timetableVars, callVars, gaVars, runVars, n_particles,
                   n_iterations, particles, global_best_position,
                   global_best_fitness>>

\* lines 76-98 with the tests of lines 91 and 96 left out of the global update:
\* the global best is overwritten by every pass
PsoUpdateOverwrites ==
    /\ pc = "pso_loop"
    /\ iteration < n_iterations
    /\ pidx <= Len(particles)
    /\ global_best_position.some
    /\ Len(global_best_position.v) = Len(particles[pidx].position)
    /\ \E r1 \in RCoeffs, r2 \in RCoeffs :
         LET particle == particles[pidx]
             velocity == NewVelocity(particle, global_best_position.v, r1, r2,
                                     InertiaWeight(iteration, n_iterations))
             position == VAdd(particle.position, velocity)
             r == fitness_function(position, courses, lecturers, schedule)
             fitness == r.ret.fit
             better == FLess(fitness, particle.best_fitness)
         IN IF r.ret.kind = "raise"
            THEN /\ raised' = r.ret.err
                 /\ pc' = "raised"
                 /\ particles' = [particles EXCEPT ![pidx].velocity = velocity,
                                                   ![pidx].position = position]
                 /\ UNCHANGED <<schedule, global_best_position, global_best_fitness,
                                evals, all_inf, min_eval, pidx>>
            ELSE /\ schedule' = r.sched
                 /\ evals' = evals + 1
                 /\ all_inf' = (all_inf /\ fitness.inf)
                 /\ min_eval' = FMin(min_eval, fitness)
                 /\ particles' =
                      [particles EXCEPT ![pidx] =
                          Particle(position, velocity,
                                   IF better THEN position ELSE particle.best_position,
                                   IF better THEN fitness ELSE particle.best_fitness)]
                 /\ global_best_fitness' = fitness
                 /\ global_best_position' = Some(position)
                 /\ pidx' = pidx + 1
                 /\ UNCHANGED <<pc, raised>>
    /\ UNCHANGED <<courses, lecturers, callVars, gaVars, n_particles, n_iterations,
                   iteration, algorithm, outerVars, best_solution, report, saved_timetable>>

\* lines 76-98: one particle's pass, with a global best position to steer to
PsoUpdateParticle ==
    /\ pc = "pso_loop"
    /\ iteration < n_iterations
    /\ pidx <= Len(particles)
    /\ global_best_position.some
    /\ Len(global_best_position.v) = Len(particles[pidx].position)
    /\ \E r1 \in RCoeffs, r2 \in RCoeffs :
         LET particle == particles[pidx]
             velocity == NewVelocity(particle, global_best_position.v, r1, r2,
                                     InertiaWeight(iteration, n_iterations))
             position == VAdd(particle.position, velocity)
             r == fitness_function(position, courses, lecturers, schedule)
             fitness == r.ret.fit
             better == FLess(fitness, particle.best_fitness)
         IN IF r.ret.kind = "raise"
            THEN /\ raised' = r.ret.err
                 /\ pc' = "raised"
                 /\ particles' = [particles EXCEPT ![pidx].velocity = velocity,
                                                   ![pidx].position = position]
                 /\ UNCHANGED <<schedule, global_best_position, global_best_fitness,
                                evals, all_inf, min_eval, pidx>>
            ELSE /\ schedule' = r.sched
                 /\ evals' = evals + 1
                 /\ all_inf' = (all_inf /\ fitness.inf)
                 /\ min_eval' = FMin(min_eval, fitness)
                 /\ particles' =
                      [particles EXCEPT ![pidx] =
                          Particle(position, velocity,
                                   IF better THEN position ELSE particle.best_position,
                                   IF better THEN fitness ELSE particle.best_fitness)]
                 /\ IF better /\ FLess(fitness, global_best_fitness)
                    THEN /\ global_best_fitness' = fitness
                         /\ global_best_position' = Some(position)
                    ELSE UNCHANGED <<global_best_fitness, global_best_position>>
                 /\ pidx' = pidx + 1
                 /\ UNCHANGED <<pc, raised>>
    /\ UNCHANGED <<courses, lecturers, callVars, gaVars, n_particles, n_iterations,
                   iteration, algorithm, outerVars, best_solution, report, saved_timetable>>

\* line 78 with self.global_best_position still None: None - ndarray
PsoUpdateRaises ==
    /\ pc = "pso_loop"
    /\ iteration < n_iterations
    /\ pidx <= Len(particles)
    /\ ~global_best_position.some
    /\ raised' = "TypeError"
    /\ pc' = "raised"
    /\ UNCHANGED <<timetableVars, callVars, psoVars, gaVars, algorithm, outerVars, evals,
                   all_inf, min_eval, best_solution, report, saved_timetable>>

\* the loop of line 74 is through: the next pass of the loop of line 70
PsoNextIteration ==
    /\ pc = "pso_loop"
    /\ iteration < n_iterations
    /\ pidx > Len(particles)
    /\ iteration' = iteration + 1
    /\ pidx' = 1
    /\ UNCHANGED <<timetableVars, pc, callVars, gaVars, runVars, n_particles,
                   n_iterations, particles, global_best_position,
                   global_best_fitness>>

\* line 100: return self.global_best_position
PsoReturn ==
    /\ pc = "pso_loop"
    /\ iteration = n_iterations
    /\ best_solution' = global_best_position
    /\ pc' = "returned"
    /\ UNCHANGED <<timetableVars, callVars, psoVars, gaVars, algorithm, outerVars, evals,
                   all_inf, min_eval, raised, report, saved_timetable>>

\* main 468-479, GeneticAlgorithm.__init__ and initialize_population 33-34
StartGA ==
    /\ pc = "start"
    /\ algorithm = "Genetic Algorithm"
    /\ population' = <<>>
    /\ best_individual' = None
    /\ best_fitness' = FInf
    /\ pc' = "ga_init"
    /\ UNCHANGED <<timetableVars, callVars, psoVars, runVars, config,
                   new_population, generation>>

\* lines 49-52 and 98-101 without the test of lines 48 and 97: the best-ever copy
\* is replaced by every evaluated individual
BestAfterUntested(individual) ==
    /\ best_fitness' = individual.fitness
    /\ best_individual' = Some([chromosome |-> individual.chromosome,
                                fitness |-> individual.fitness])

\* what lines 45-52 and 94-101 do with a freshly evaluated individual: the
\* best-ever copy is replaced on a strictly smaller fitness
BestAfter(individual) ==
    IF FLess(individual.fitness, best_fitness)
    THEN /\ best_fitness' = individual.fitness
         /\ best_individual' = Some([chromosome |-> individual.chromosome,
                                     fitness |-> individual.fitness])
    ELSE UNCHANGED <<best_fitness, best_individual>>

\* initialize_population, lines 35-52: one pass of the loop
GaInitIndividual ==
    /\ pc = "ga_init"
    /\ Len(population) < config.population_size
    /\ \E chromosome \in InitChromosomes(solution_size) :
         LET r == fitness_function(chromosome, courses, lecturers, schedule)
             individual == [chromosome |-> chromosome, fitness |-> r.ret.fit]
         IN IF r.ret.kind = "raise"
            THEN /\ raised' = r.ret.err
                 /\ pc' = "raised"
                 /\ UNCHANGED <<schedule, population, best_fitness, best_individual,
                                evals, all_inf, min_eval>>
            ELSE /\ schedule' = r.sched
                 /\ evals' = evals + 1
                 /\ all_inf' = (all_inf /\ r.ret.fit.inf)
                 /\ min_eval' = FMin(min_eval, r.ret.fit)
                 /\ population' = Append(population, individual)
                 /\ BestAfter(individual)
                 /\ UNCHANGED <<pc, raised>>
    /\ UNCHANGED <<courses, lecturers, callVars, psoVars, config, new_population,
                   generation, algorithm, outerVars, best_solution, report, saved_timetable>>

\* the loop of line 35 is through; optimize enters the loop of line 81
GaInitDone ==
    /\ pc = "ga_init"
    /\ Len(population) = config.population_size
    /\ generation' = 0
    /\ pc' = "ga_loop"
    /\ UNCHANGED <<timetableVars, callVars, psoVars, runVars, config, population,
                   new_population, best_individual, best_fitness>>

\* lines 82-86: a generation starts with copies of the first elite_size
\* individuals of the population sorted by fitness
GaElitism ==
    /\ pc = "ga_loop"
    /\ generation < config.n_generations
    /\ new_population' = Elites(population, config.elite_size)
    /\ pc' = "ga_fill"
    /\ UNCHANGED <<timetableVars, callVars, psoVars, runVars, config, population,
                   best_individual, best_fitness, generation>>

\* lines 89-101: one offspring
GaOffspring ==
    /\ pc = "ga_fill"
    /\ Len(new_population) < config.population_size
    /\ config.tournament_size <= Len(population)
    /\ \E chromosome \in Offspring(population, config, solution_size) :
         LET r == fitness_function(chromosome, courses, lecturers, schedule)
             child == [chromosome |-> chromosome, fitness |-> r.ret.fit]
         IN IF r.ret.kind = "raise"
            THEN /\ raised' = r.ret.err
                 /\ pc' = "raised"
                 /\ UNCHANGED <<schedule, new_population, best_fitness,
                                best_individual, evals, all_inf, min_eval>>
            ELSE /\ schedule' = r.sched
                 /\ evals' = evals + 1
                 /\ all_inf' = (all_inf /\ r.ret.fit.inf)
                 /\ min_eval' = FMin(min_eval, r.ret.fit)
                 /\ new_population' = Append(new_population, child)
                 /\ BestAfter(child)
                 /\ UNCHANGED <<pc, raised>>
    /\ UNCHANGED <<courses, lecturers, callVars, psoVars, config, population,
                   generation, algorithm, outerVars, best_solution, report, saved_timetable>>

\* line 56: random.sample raises ValueError for a sample larger than the population
GaSelectionRaises ==
    /\ pc = "ga_fill"
    /\ Len(new_population) < config.population_size
    /\ config.tournament_size > Len(population)
    /\ raised' = "ValueError"
    /\ pc' = "raised"
    /\ UNCHANGED <<timetableVars, callVars, psoVars, gaVars, algorithm, outerVars, evals,
                   all_inf, min_eval, best_solution, report, saved_timetable>>

\* line 103 as self.population.extend(new_population): the old generation stays
GaReplaceExtends ==
    /\ pc = "ga_fill"
    /\ Len(new_population) >= config.population_size
    /\ population' = population \o new_population
    /\ generation' = generation + 1
    /\ pc' = "ga_loop"
    /\ UNCHANGED <<timetableVars, callVars, psoVars, runVars, config,
                   new_population, best_individual, best_fitness>>

\* line 103: self.population = new_population, and the next generation
GaReplace ==
    /\ pc = "ga_fill"
    /\ Len(new_population) >= config.population_size
    /\ population' = new_population
    /\ generation' = generation + 1
    /\ pc' = "ga_loop"
    /\ UNCHANGED <<timetableVars, callVars, psoVars, runVars, config,
                   new_population, best_individual, best_fitness>>

\* line 105: return self.best_individual.chromosome
GaReturn ==
    /\ pc = "ga_loop"
    /\ generation = config.n_generations
    /\ best_individual.some
    /\ best_solution' = Some(best_individual.v.chromosome)
    /\ pc' = "returned"
    /\ UNCHANGED <<timetableVars, callVars, psoVars, gaVars, algorithm, outerVars, evals,
                   all_inf, min_eval, raised, report, saved_timetable>>

\* line 105 with self.best_individual still None: None has no chromosome
GaReturnRaises ==
    /\ pc = "ga_loop"
    /\ generation = config.n_generations
    /\ ~best_individual.some
    /\ raised' = "AttributeError"
    /\ pc' = "raised"
    /\ UNCHANGED <<timetableVars, callVars, psoVars, gaVars, algorithm, outerVars, evals,
                   all_inf, min_eval, best_solution, report, saved_timetable>>

\* convert_schedule_to_json, lines 118-130: per course id the list of
\* {'day', 'period', 'room'} dicts of its slots
convert_schedule_to_json(sched) ==
    [e \in 1..Len(sched) |->
        [course_id |-> sched[e].course_id,
         slots |-> [i \in 1..Len(sched[e].slots) |->
                       [day |-> sched[e].slots[i].day,
                        period |-> sched[e].slots[i].period,
                        room |-> sched[e].slots[i].room]]]]

\* main 481-491: the returned vector is decoded and saved, or "Failed to find a
\* valid solution" is shown
ReportResult ==
    /\ pc = "returned"
    /\ IF best_solution.some
       THEN LET d == decode_solution(best_solution.v, courses)
            IN IF d.kind = "return"
               THEN /\ schedule' = d.timetable
                    /\ saved_timetable' = convert_schedule_to_json(d.timetable)
                    /\ report' = "success"
                    /\ raised' = raised
               ELSE /\ raised' = d.kind
                    /\ report' = "error"
                    /\ UNCHANGED <<schedule, saved_timetable>>
       ELSE /\ report' = "no solution"
            /\ UNCHANGED <<schedule, saved_timetable, raised>>
    /\ pc' = "finished"
    /\ UNCHANGED <<courses, lecturers, callVars, psoVars, gaVars, algorithm, outerVars, evals,
                   all_inf, min_eval, best_solution>>

\* main 492-493: except Exception shows "Error during optimization"
ReportError ==
    /\ pc = "raised"
    /\ report' = "error"
    /\ pc' = "finished"
    /\ UNCHANGED <<timetableVars, callVars, psoVars, gaVars, algorithm, outerVars, evals,
                   all_inf, min_eval, best_solution, raised, saved_timetable>>

NextRun ==
    \/ StartPSO
    \/ PsoInitParticle
    \/ PsoInitDone
    \/ PsoUpdateParticle
    \/ PsoUpdateRaises
    \/ PsoNextIteration
    \/ PsoReturn
    \/ StartGA
    \/ GaInitIndividual
    \/ GaInitDone
    \/ GaElitism
    \/ GaOffspring
    \/ GaSelectionRaises
    \/ GaReplace
    \/ GaReturn
    \/ GaReturnRaises
    \/ ReportResult
    \/ ReportError

SpecRun == InitRun /\ [][NextRun]_vars

---------------------------------------------------------------------------
(* A second optimize call on an optimizer object that completed a run *)

\* the input sets of the second call: the first call's course, the course with
\* room 1 as its only required room, and a course of two sessions
CfgOneRoom == [courses |-> <<Course(0, 1, 0, {1})>>, lecturers |-> <<Smith>>]
CfgTwoSessions == [courses |-> <<Course(0, 2, 0, {0, 1})>>, lecturers |-> <<Smith>>]
AgainConfigs == {CfgOne, CfgOneRoom, CfgTwoSessions}

\* PSO.optimize(fitness_func, solution_size) once more, lines 66-68 and 40:
\* fitness_func and solution_size are set and self.particles is emptied;
\* global_best_position and global_best_fitness are written by __init__ only
OptimizeAgainPSO ==
    /\ pc = "returned"
    /\ algorithm = "PSO"
    /\ ~again
    /\ \E cfg \in AgainConfigs : courses' = cfg.courses /\ lecturers' = cfg.lecturers
    /\ schedule' = <<>>
    /\ particles' = <<>>
    /\ pc' = "pso_init"
    /\ again' = TRUE
    /\ evals' = 0
    /\ all_inf' = TRUE
    /\ min_eval' = FInf
    /\ best_solution' = None
    /\ UNCHANGED <<callVars, gaVars, n_particles, n_iterations,
                   global_best_position, global_best_fitness, iteration, pidx,
                   algorithm, confirm_delete_course, clicks, raised, report,
                   saved_timetable>>

\* line 78 with a global best position of another length than the particle's:
\* numpy cannot broadcast the two shapes
PsoUpdateMismatch ==
    /\ pc = "pso_loop"
    /\ iteration < n_iterations
    /\ pidx <= Len(particles)
    /\ global_best_position.some
    /\ Len(global_best_position.v) # Len(particles[pidx].position)
    /\ raised' = "ValueError: broadcast"
    /\ pc' = "raised"
    /\ UNCHANGED <<timetableVars, callVars, psoVars, gaVars, algorithm, outerVars,
                   evals, all_inf, min_eval, best_solution, report, saved_timetable>>

\* GeneticAlgorithm.optimize(solution_size) once more, lines 79 and 33-34, after
\* the course list the fitness closure reads was edited: solution_size is set
\* and self.population is emptied; best_individual and best_fitness are written
\* by __init__ only
OptimizeAgainGA ==
    /\ pc = "returned"
    /\ algorithm = "Genetic Algorithm"
    /\ ~again
    /\ \E cfg \in AgainConfigs : courses' = cfg.courses /\ lecturers' = cfg.lecturers
    /\ schedule' = <<>>
    /\ population' = <<>>
    /\ pc' = "ga_init"
    /\ again' = TRUE
    /\ evals' = 0
    /\ all_inf' = TRUE
    /\ min_eval' = FInf
    /\ best_solution' = None
    /\ UNCHANGED <<callVars, psoVars, config, new_population, best_individual,
                   best_fitness, generation, algorithm, confirm_delete_course,
                   clicks, raised, report, saved_timetable>>

NextAgain ==
    \/ NextRun
    \/ OptimizeAgainPSO
    \/ PsoUpdateMismatch
    \/ OptimizeAgainGA

SpecAgain == InitRun /\ [][NextAgain]_vars

---------------------------------------------------------------------------
(* app.py manage_data, the Courses tab (lines 181-244) *)

\* main 311-313 returns before the Manage Data tab (line 495) when either list
\* is empty, so no widget of manage_data exists then
ManageDataShown == courses # <<>> /\ lecturers # <<>>

\* next(l for l in lecturers if l.id == course.lecturer), line 215, finds one
LecturerFound(course) == \E k \in 1..Len(lecturers) : lecturers[k].id = course.lecturer

\* list.remove / the parallel removal of the ghost serial
RemoveAt(s, i) == [k \in 1..(Len(s) - 1) |-> IF k < i THEN s[k] ELSE s[k + 1]]

\* what everything outside the Courses tab holds while the tab is used
dataFrame == <<lecturers, schedule, pc, solution, ret, decoded, slotsDecoded, psoVars,
               gaVars, algorithm, again, evals, all_inf, min_eval, best_solution,
               raised, report, saved_timetable>>

\* a fresh session on the Manage Data tab. data/courses.json as load_data
\* (lines 29-58) may find it: one course, two courses, or two courses of which
\* the second names a lecturer that is gone. There is no results file, so
\* saved_timetable is {} and the del of line 229 / 240 never runs
InitData ==
    /\ courses \in {<<Course(0, 1, 0, {0, 1, 2})>>,
                    <<Course(0, 1, 0, {0, 1, 2}), Course(1, 2, 0, {0, 1, 2})>>,
                    <<Course(0, 1, 0, {0, 1, 2}), Course(1, 1, 7, {0, 1, 2})>>}
    /\ lecturers = <<Smith>>
    /\ schedule = <<>>
    /\ pc = "manage"
    /\ op = "load"
    /\ solution = <<>>
    /\ ret = NoRet
    /\ decoded = <<>>
    /\ slotsDecoded = 0
    /\ algorithm = "PSO"
    /\ n_particles = 0
    /\ n_iterations = 0
    /\ particles = <<>>
    /\ global_best_position = None
    /\ global_best_fitness = FInf
    /\ iteration = 0
    /\ pidx = 0
    /\ config = [population_size |-> 0, n_generations |-> 0, mutation_rate |-> 0,
                 tournament_size |-> 0, elite_size |-> 0]
    /\ population = <<>>
    /\ new_population = <<>>
    /\ best_individual = None
    /\ best_fitness = FInf
    /\ generation = 0
    /\ evals = 0
    /\ all_inf = TRUE
    /\ min_eval = FInf
    /\ best_solution = None
    /\ raised = ""
    /\ report = ""
    /\ saved_timetable = <<>>
    /\ again = FALSE
    /\ confirm_delete_course = Absent
    /\ clicks = [serials |-> [k \in 1..Len(courses) |-> k], warned |-> {},
                 born |-> Len(courses)]

\* "Add Course", lines 198-210
AddCourse ==
    /\ pc = "manage"
    /\ ManageDataShown
    /\ Len(courses) < MaxCourses
    /\ clicks.born < MaxBorn
    /\ \E duration \in 1..2, k \in 1..Len(lecturers) :
          \* max([c.id for c in courses], default=-1) + 1; courses is not empty
          LET new_id == (CHOOSE m \in {courses[j].id : j \in 1..Len(courses)} :
                            \A j \in 1..Len(courses) : courses[j].id <= m) + 1
          IN courses' = Append(courses,
                               Course(new_id, duration, lecturers[k].id, {0, 1, 2}))
    /\ clicks' = [clicks EXCEPT !.serials = Append(@, clicks.born + 1),
                                !.born = @ + 1]
    /\ op' = "add_course"
    /\ UNCHANGED <<confirm_delete_course, dataFrame>>

\* the delete button of one course whose lecturer exists, lines 223-235
ClickDelete ==
    /\ pc = "manage"
    /\ ManageDataShown
    /\ \E i \in 1..Len(courses) :
          /\ LecturerFound(courses[i])
          /\ LET state == IF confirm_delete_course.present THEN confirm_delete_course
                          ELSE Held(None)
             IN IF state.value.some /\ state.value.v = courses[i].id
                THEN /\ courses' = RemoveAt(courses, i)
                     /\ clicks' = [clicks EXCEPT !.serials = RemoveAt(@, i)]
                     /\ confirm_delete_course' = state
                ELSE /\ confirm_delete_course' = Held(Some(courses[i].id))
                     /\ clicks' = [clicks EXCEPT !.warned = @ \cup {clicks.serials[i]}]
                     /\ UNCHANGED courses
    /\ op' = "del_course"
    /\ UNCHANGED dataFrame

\* "Delete Invalid Course" of a course whose lecturer is gone, lines 236-244
ClickDeleteInvalid ==
    /\ pc = "manage"
    /\ ManageDataShown
    /\ \E i \in 1..Len(courses) :
          /\ ~LecturerFound(courses[i])
          /\ courses' = RemoveAt(courses, i)
          /\ clicks' = [clicks EXCEPT !.serials = RemoveAt(@, i)]
    /\ op' = "del_invalid_course"
    /\ UNCHANGED <<confirm_delete_course, dataFrame>>

\* any other widget: the script runs again, load_data reads the files back and
\* st.session_state is kept
PageRerun ==
    /\ pc = "manage"
    /\ op' = "rerun"
    /\ UNCHANGED <<courses, confirm_delete_course, clicks, dataFrame>>

NextData == AddCourse \/ ClickDelete \/ ClickDeleteInvalid \/ PageRerun

SpecData == InitData /\ [][NextData]_vars

---------------------------------------------------------------------------
(* What a schedule is, stated without walking it *)

Positions(sched) ==
    UNION {{<<e, i>> : i \in 1..Len(sched[e].slots)} : e \in 1..Len(sched)}
SlotAt(sched, p) == sched[p[1]].slots[p[2]]
CourseAt(sched, cs, p) == First(cs, sched[p[1]].course_id)
RoomKey(sl) == <<sl.day, sl.period, sl.room>>
TimeKey(sl) == <<sl.day, sl.period>>

WellFormed(sched, cs, ls) ==
    \A e \in 1..Len(sched) :
        /\ Found(cs, sched[e].course_id)
        /\ Found(ls, First(cs, sched[e].course_id).lecturer)

\* two different courses in one (day, period, room)
CrossRoomConflict(sched) ==
    \E p, q \in Positions(sched) :
        p[1] # q[1] /\ RoomKey(SlotAt(sched, p)) = RoomKey(SlotAt(sched, q))

\* two different courses of one lecturer at one (day, period)
CrossLecturerConflict(sched, cs) ==
    \E p, q \in Positions(sched) :
        /\ p[1] # q[1]
        /\ CourseAt(sched, cs, p).lecturer = CourseAt(sched, cs, q).lecturer
        /\ TimeKey(SlotAt(sched, p)) = TimeKey(SlotAt(sched, q))

InvalidRoomSlots(sched, cs) ==
    {p \in Positions(sched) :
        SlotAt(sched, p).room \notin CourseAt(sched, cs, p).required_rooms}

UnavailableSlots(sched, cs, ls) ==
    {p \in Positions(sched) :
        TimeKey(SlotAt(sched, p))
            \notin First(ls, CourseAt(sched, cs, p).lecturer).available_slots}

\* slots whose key an earlier slot of the walk already holds, in any walk order
RoomHits(sched) ==
    Cardinality(Positions(sched))
    - Cardinality({RoomKey(SlotAt(sched, p)) : p \in Positions(sched)})

LecturerHits(sched, cs) ==
    Cardinality(Positions(sched))
    - Cardinality({<<TimeKey(SlotAt(sched, p)), CourseAt(sched, cs, p).lecturer>> :
                      p \in Positions(sched)})

\* one course's sessions on one day, in exactly adjacent periods
ContiguousSlots(slots) ==
    LET periods == {slots[i].period : i \in 1..Len(slots)}
    IN /\ \A i, j \in 1..Len(slots) : slots[i].day = slots[j].day
       /\ Cardinality(periods) = Len(slots)
       /\ \A x \in periods : x = Min(periods) \/ (x - 1) \in periods

Contiguous(sched) == \A e \in 1..Len(sched) : ContiguousSlots(sched[e].slots)

\* neighbours of the (day, period)-sorted list on different days / with a gap
DaySplitPairs(slots) ==
    LET sorted == SortSlots(slots)
    IN {i \in 1..(Len(slots) - 1) : sorted[i + 1].day # sorted[i].day}
GapPairs(slots) ==
    LET sorted == SortSlots(slots)
    IN {i \in 1..(Len(slots) - 1) :
           /\ sorted[i + 1].day = sorted[i].day
           /\ sorted[i + 1].period # sorted[i].period + 1}

RECURSIVE ContinuityTerm(_, _)
ContinuityTerm(sched, e) ==
    IF e > Len(sched) THEN 0
    ELSE 50 * Cardinality(DaySplitPairs(sched[e].slots))
         + 30 * Cardinality(GapPairs(sched[e].slots))
         + ContinuityTerm(sched, e + 1)

\* what the first two loops of get_fitness have accumulated
ConflictLoops(sched, cs, ls) ==
    LecturerLoop(sched, 1, cs, ls,
        [penalties |-> RoomLoop(sched, 1, cs,
                           [penalties |-> 0, seen |-> EmptyMap,
                            raised |-> FALSE]).penalties,
         seen |-> EmptyMap, raised |-> FALSE]).penalties

\* the schedule with the room of the slot at position p replaced
WithRoom(sched, p, r) == [sched EXCEPT ![p[1]].slots[p[2]].room = r]

\* the same mapping in another iteration order, each list in another order
SlotOrders(slots) ==
    {[i \in 1..Len(slots) |-> slots[f[i]]] : f \in Perms(Len(slots))}
Reorderings(sched) ==
    LET n == Len(sched)
        all == UNION {SlotOrders(sched[e].slots) : e \in 1..n}
        lists == {f \in [1..n -> all] : \A e \in 1..n : f[e] \in SlotOrders(sched[e].slots)}
    IN {[i \in 1..n |-> [course_id |-> sched[p[i]].course_id, slots |-> ss[p[i]]]] :
           p \in Perms(n), ss \in lists}

RightLength == Len(solution) = RequiredLength(courses)

---------------------------------------------------------------------------
(* Claims *)

\* C1: a vector whose length differs from the sum of duration*3 makes both
\* decode_solution and the fitness function raise the length-mismatch error, with
\* no slot decoded and timetable.schedule left as it was.
C1_LengthMismatchFailsFast ==
    [][(/\ pc = "idle"
        /\ pc' = "done"
        /\ Len(solution') # RequiredLength(courses))
       => (/\ ret' = Raised("ValueError: length")
           /\ slotsDecoded' = 0
           /\ schedule' = schedule)]_vars

C1_Witness ==
    /\ pc = "done"
    /\ op = "fitness_function"
    /\ ~RightLength
    /\ ret = Raised("ValueError: length")
    /\ schedule # <<>>

\* C2: for a vector of the right length, negative and out-of-range entries
\* included, decode_solution returns one entry per course, with duration slots
\* each, and every slot has 0 <= day < 5, 0 <= period < 8, 0 <= room < 8.
C2_DecodeShapeAndRange ==
    (pc = "done" /\ op = "decode_solution" /\ RightLength)
    => /\ ret.kind = "return"
       /\ Len(decoded) = Len(courses)
       /\ \A c \in 1..Len(courses) :
            /\ Cardinality({e \in 1..Len(decoded) :
                               decoded[e].course_id = courses[c].id}) = 1
            /\ \A e \in 1..Len(decoded) :
                 decoded[e].course_id = courses[c].id
                 => Len(decoded[e].slots) = courses[c].duration
       /\ \A p \in Positions(decoded) :
            /\ SlotAt(decoded, p).day \in 0..(DAYS - 1)
            /\ SlotAt(decoded, p).period \in 0..(PERIODS - 1)
            /\ SlotAt(decoded, p).room \in 0..(ROOMS - 1)

C2_Witness ==
    /\ pc = "done"
    /\ op = "decode_solution"
    /\ RightLength
    /\ Len(courses) = 2
    /\ \E i, j \in 1..Len(solution) : solution[i] < 0 /\ solution[j] > 2 * PERIODS
    /\ ret.kind = "return"

\* C3 as stated: no conflict between different courses, no room outside the
\* required set and contiguous sessions give a fitness of exactly 0.0.
C3_Original ==
    (/\ pc = "scored"
     /\ ~CrossRoomConflict(schedule)
     /\ ~CrossLecturerConflict(schedule, courses)
     /\ InvalidRoomSlots(schedule, courses) = {}
     /\ Contiguous(schedule))
    => ret = Returned(FVal(0))

\* C3, amended: if moreover every scheduled course's lecturer is in the lecturer
\* list and every slot lies in that lecturer's available slots, get_fitness
\* returns exactly 0.0.
C3_PerfectScheduleScoresZero ==
    (/\ pc = "scored"
     /\ WellFormed(schedule, courses, lecturers)
     /\ ~CrossRoomConflict(schedule)
     /\ ~CrossLecturerConflict(schedule, courses)
     /\ InvalidRoomSlots(schedule, courses) = {}
     /\ UnavailableSlots(schedule, courses, lecturers) = {}
     /\ Contiguous(schedule))
    => ret = Returned(FVal(0))

\* Scenario A of the tests: Math at (0,0,room 0), (0,1,room 0), Physics at (0,2,room 1)
C3_Witness ==
    /\ pc = "scored"
    /\ courses = CfgTest.courses
    /\ schedule = <<[course_id |-> 0,
                     slots |-> <<TimeSlot(0, 0, 0), TimeSlot(0, 1, 0)>>],
                    [course_id |-> 1, slots |-> <<TimeSlot(0, 2, 1)>>]>>
    /\ ret = Returned(FVal(0))

\* C4: with no two different courses in one (day, period, room) and no two
\* different courses of one lecturer at one (day, period), the fitness holds no
\* 1000 term: it is the invalid-room, availability and continuity terms alone.
C4_OnlyCrossCourseCollisionsCost1000 ==
    (/\ pc = "scored"
     /\ ret.kind = "return"
     /\ ~CrossRoomConflict(schedule)
     /\ ~CrossLecturerConflict(schedule, courses))
    => ret.fit.val = 100 * Cardinality(InvalidRoomSlots(schedule, courses))
                     + 100 * Cardinality(UnavailableSlots(schedule, courses, lecturers))
                     + ContinuityTerm(schedule, 1)

OnlyOneDaySplit(sched, cs, ls) ==
    /\ WellFormed(sched, cs, ls)
    /\ InvalidRoomSlots(sched, cs) = {}
    /\ UnavailableSlots(sched, cs, ls) = {}
    /\ RoomHits(sched) = 0
    /\ LecturerHits(sched, cs) = 0
    /\ \E e \in 1..Len(sched) :
         /\ Len(sched[e].slots) = 2
         /\ sched[e].slots[1].day # sched[e].slots[2].day
         /\ \A o \in 1..Len(sched) : o # e => ContiguousSlots(sched[o].slots)

\* C5: on top of the first two loops, get_fitness adds 50 for each pair of
\* neighbours of a course's sorted list on different days and 30 for each pair
\* on one day with period[i+1] # period[i]+1, never both; a schedule whose only
\* violation is one 2-session course split over two days scores exactly 50.0.
C5_ContinuityCharges ==
    (pc = "scored" /\ ret.kind = "return")
    => /\ ret.fit.val = ConflictLoops(schedule, courses, lecturers)
                        + ContinuityTerm(schedule, 1)
       /\ OnlyOneDaySplit(schedule, courses, lecturers) => ret.fit = FVal(50)

\* Scenario B of the tests: Math at (0,0,room 0) and (1,0,room 0)
C5_Witness ==
    /\ pc = "scored"
    /\ courses = CfgTest.courses
    /\ schedule = <<[course_id |-> 0,
                     slots |-> <<TimeSlot(0, 0, 0), TimeSlot(1, 0, 0)>>],
                    [course_id |-> 1, slots |-> <<TimeSlot(0, 2, 1)>>]>>
    /\ ret = Returned(FVal(50))

Alone(sched, p, key) ==
    \A q \in Positions(sched) : q # p => RoomKey(SlotAt(sched, q)) # key

\* C6: every slot in a room outside its course's required set adds exactly 100,
\* whether or not it takes part in a conflict; moving such a slot to another
\* room outside the set, with no other slot in its old or new (day, period,
\* room), leaves the fitness as it is.
C6_InvalidRoomAddsHundred ==
    (pc = "scored" /\ ret.kind = "return")
    => /\ ret.fit.val = 100 * Cardinality(InvalidRoomSlots(schedule, courses))
                        + 1000 * RoomHits(schedule)
                        + 100 * Cardinality(UnavailableSlots(schedule, courses, lecturers))
                        + 1000 * LecturerHits(schedule, courses)
                        + ContinuityTerm(schedule, 1)
       /\ \A p \in InvalidRoomSlots(schedule, courses) :
            \A r \in (0..(ROOMS - 1)) \ CourseAt(schedule, courses, p).required_rooms :
               LET sl == SlotAt(schedule, p)
               IN (/\ Alone(schedule, p, RoomKey(sl))
                   /\ Alone(schedule, p, <<sl.day, sl.period, r>>))
                  => get_fitness(WithRoom(schedule, p, r), courses, lecturers).val
                     = ret.fit.val

\* a slot in an invalid room that also shares its (day, period, room)
C6_Witness ==
    /\ pc = "scored"
    /\ ret.kind = "return"
    /\ \E p \in InvalidRoomSlots(schedule, courses) :
         ~Alone(schedule, p, RoomKey(SlotAt(schedule, p)))
    /\ \E p \in InvalidRoomSlots(schedule, courses) :
         Alone(schedule, p, RoomKey(SlotAt(schedule, p)))

\* C7: get_fitness gives the same result for every iteration order of the
\* schedule mapping and every order of the slots inside a course's list.
C7_OrderIndependent ==
    pc = "scored"
    => \A q \in Reorderings(schedule) :
         LET f == get_fitness(q, courses, lecturers)
         IN ret = IF f.raised THEN Raised("StopIteration") ELSE Returned(FVal(f.val))

\* the dict holds course 1 before course 0 and the score has every kind of term
C7_Witness ==
    /\ pc = "scored"
    /\ Len(schedule) = 2
    /\ schedule[1].course_id = 1
    /\ ret.kind = "return"
    /\ RoomHits(schedule) > 0
    /\ ContinuityTerm(schedule, 1) > 0
    /\ InvalidRoomSlots(schedule, courses) # {}

LecturerMissing ==
    \E c \in 1..Len(courses) : ~Found(lecturers, courses[c].lecturer)

\* C8: for a vector of the right length the fitness function never raises; when
\* a course's lecturer is in no lecturer list the evaluation fails and the call
\* returns +infinity.
C8_WrapperNeverRaises ==
    (pc = "done" /\ op = "fitness_function" /\ RightLength)
    => /\ ret.kind = "return"
       /\ LecturerMissing => ret.fit = FInf
       /\ ~LecturerMissing => ~ret.fit.inf

C8_Witness ==
    /\ pc = "done"
    /\ op = "fitness_function"
    /\ RightLength
    /\ LecturerMissing
    /\ ret = Returned(FInf)

\* the search of a run has ended: optimize returned or raised
OptimizeEnded == pc \in {"returned", "raised"}

\* random.sample can draw every tournament (PSO draws none)
SampleFits ==
    algorithm = "Genetic Algorithm" => config.tournament_size <= config.population_size

\* C9: when every candidate evaluated in a run had fitness +infinity, optimize
\* of either search runs to its end and returns none, for every iteration or
\* generation count, and does not raise.
C9_AllInfiniteReturnsNone ==
    (OptimizeEnded /\ SampleFits /\ evals >= 1 /\ all_inf)
    => (pc = "returned" /\ best_solution = None)

\* the candidates one search creates and evaluates before its first loop
Created == IF algorithm = "PSO" THEN n_particles ELSE config.population_size

\* C10 as stated: with a course whose lecturer id is in no lecturer list the run
\* is aborted before the search begins, no particle or individual is created or
\* evaluated.
C10_Original ==
    LecturerMissing
    => /\ evals = 0
       /\ particles = <<>>
       /\ population = <<>>

\* C10: with a course whose lecturer id is in no lecturer list the run is not
\* aborted before the search: every particle or individual of the search is
\* created and evaluated, each evaluation comes back as +infinity and none raises
\* the lookup failure, and the run ends reported as failed ("Error during
\* optimization" or "Failed to find a valid solution") with no timetable saved.
C10_MissingLecturerFailsAfterSearch ==
    LecturerMissing
    => /\ all_inf
       /\ raised # "StopIteration"
       /\ report # "success"
       /\ saved_timetable = <<>>
       /\ OptimizeEnded => evals >= Created
       /\ pc = "finished" => (evals >= Created /\ report \in {"error", "no solution"})

C10_Witness ==
    /\ LecturerMissing
    /\ pc = "finished"
    /\ evals >= 2
    /\ report = "error"
    /\ saved_timetable = <<>>

\* C11: in PSO.optimize the global best fitness never increases and changes only
\* to a strictly smaller value; after every step it is the least fitness
\* evaluated so far in the run, so it is at most the fitness of each initial
\* position when the particle is appended and when optimize returns.
C11_GlobalBestIsRunningMinimum ==
    [][algorithm = "PSO"
       => /\ ~FLess(global_best_fitness, global_best_fitness')
          /\ global_best_fitness' # global_best_fitness
               => FLess(global_best_fitness', global_best_fitness)
          /\ global_best_fitness' = min_eval'
          /\ Len(particles') > Len(particles)
               => ~FLess(particles'[Len(particles')].best_fitness,
                         global_best_fitness')
          /\ pc' = "returned"
               => \A i \in 1..Len(particles') :
                     ~FLess(particles'[i].best_fitness, global_best_fitness')]_vars

C11_Witness ==
    /\ algorithm = "PSO"
    /\ pc = "returned"
    /\ n_particles = 2
    /\ evals = n_particles * (n_iterations + 1)
    /\ best_solution.some
    /\ best_solution.v \notin InitPositions(solution_size)
    /\ global_best_fitness = FVal(0)
    /\ \E i \in 1..Len(particles) : FLess(global_best_fitness, particles[i].best_fitness)

\* C12: in GeneticAlgorithm.optimize the best-ever fitness never increases from
\* one step, and so from one generation, to the next; it is the least fitness
\* evaluated so far, and best_individual holds a chromosome whose fitness under
\* the fitness function is best_fitness.
C12_BestEverMonotone ==
    [][algorithm = "Genetic Algorithm"
       => /\ ~FLess(best_fitness, best_fitness')
          /\ best_fitness' = min_eval'
          /\ best_individual'.some = ~best_fitness'.inf
          /\ best_individual'.some
               => /\ best_individual'.v.fitness = best_fitness'
                  /\ fitness_function(best_individual'.v.chromosome, courses',
                                      lecturers', schedule').ret
                       = Returned(best_fitness')]_vars

C12_Witness ==
    /\ algorithm = "Genetic Algorithm"
    /\ pc = "returned"
    /\ generation = 2
    /\ best_fitness = FVal(0)
    /\ best_solution = Some(best_individual.v.chromosome)
    /\ \A i \in 1..Len(population) :
          fitness_function(population[i].chromosome, courses, lecturers,
                           schedule).ret.fit = FVal(100)

\* the value of the fitness function on a chromosome, as the run's closure
\* computes it
TrueFitness(chromosome) ==
    fitness_function(chromosome, courses, lecturers, schedule).ret.fit

\* the picks of k members of the population none of which is beaten, under the
\* fitness function, by a member left out
LowestPicks(pop, k) ==
    {f \in [1..k -> 1..Len(pop)] :
        /\ \A a, b \in 1..k : a # b => f[a] # f[b]
        /\ \A a \in 1..k : \A j \in 1..Len(pop) :
              (\A b \in 1..k : f[b] # j)
              => ~FLess(TrueFitness(pop[j].chromosome),
                        TrueFitness(pop[f[a]].chromosome))}

\* C13: every generation step, the first and the later ones, starts the next
\* generation with unchanged copies of the elite_size members of the current
\* population that have the lowest fitness under the fitness function.
C13_ElitesAreTheLowest ==
    [][(pc = "ga_loop" /\ pc' = "ga_fill")
       => LET k == Min({config.elite_size, Len(population)})
          IN /\ Len(new_population') = k
             /\ \E f \in LowestPicks(population, k) :
                   \A a \in 1..k :
                      new_population'[a].chromosome = population[f[a]].chromosome]_vars

\* C14: after initialize_population and after every generation step the
\* population holds exactly population_size individuals, elites and offspring
\* together, for every elite_size >= 0 (an elite_size of the population's size
\* or more included).
C14_PopulationSizeKept ==
    algorithm = "Genetic Algorithm"
    => /\ pc \in {"ga_loop", "returned"} => Len(population) = config.population_size
       /\ pc = "ga_fill"
            => /\ Len(population) = config.population_size
               /\ Len(new_population) <= config.population_size
               /\ Len(new_population) >= Min({config.elite_size, config.population_size})

C14_Witness ==
    /\ algorithm = "Genetic Algorithm"
    /\ pc = "ga_loop"
    /\ generation = 2
    /\ config.elite_size = 1
    /\ Len(population) = 2
    /\ population[1].fitness.inf
    /\ ~population[2].fitness.inf

\* C15: Timetable.is_valid() returns a pair (is_valid, message): (True, "Valid
\* timetable") for a schedule with no violation, (False, a message naming "Room
\* conflict") when two courses share a (day, period, room) and (False, a message
\* naming "Lecturer conflict") when a lecturer's constraints are broken with no
\* room shared; in each case the call returns.
C15_IsValidReturnsVerdict ==
    (pc = "validated" /\ op = "is_valid" /\ WellFormed(schedule, courses, lecturers))
    => ret.kind = "return"

\* C16: in every state of GeneticAlgorithm.optimize each member of the population
\* carries a cached fitness equal to the value of the fitness function on its
\* chromosome, the elite copies included when the tournaments and the next
\* elitism sort read it.
C16_CachedFitnessIsTrue ==
    (algorithm = "Genetic Algorithm" /\ pc \in {"ga_init", "ga_loop", "ga_fill"})
    => \A i \in 1..Len(population) :
          population[i].fitness = TrueFitness(population[i].chromosome)

\* gene i of a chromosome is a whole number of its field's domain: a day in
\* [0, 5) at the indices 0, 3, ..., a period and a room in [0, 8) after it
GeneLegal(chromosome, i) ==
    /\ chromosome[i] % 2 = 0
    /\ chromosome[i] \div 2 >= 0
    /\ chromosome[i] \div 2 < (IF i % 3 = 1 THEN DAYS ELSE IF i % 3 = 2 THEN PERIODS
                                ELSE ROOMS)
Legal(chromosome) ==
    /\ Len(chromosome) = solution_size
    /\ \A i \in 1..Len(chromosome) : GeneLegal(chromosome, i)

\* C17: for a solution size that is a multiple of 3 every chromosome of the
\* population and the best-ever chromosome stay in the legal domain of each field
\* through initialisation, crossover and mutation, and a child takes each gene,
\* before mutation, from one of its two parents at the same index.
C17_ChromosomesStayLegal ==
    [][algorithm = "Genetic Algorithm"
       => /\ \A i \in 1..Len(population') : Legal(population'[i].chromosome)
          /\ \A i \in 1..Len(new_population') : Legal(new_population'[i].chromosome)
          /\ best_individual'.some => Legal(best_individual'.v.chromosome)
          /\ (/\ pc = "ga_fill"
              /\ Len(new_population') > Len(new_population)
              /\ config.mutation_rate = 0)
               => LET child == new_population'[Len(new_population')].chromosome
                  IN \E p1, p2 \in Parents(population, config.tournament_size) :
                        \A i \in 1..Len(child) :
                           child[i] \in {population[p1].chromosome[i],
                                         population[p2].chromosome[i]}]_vars

C17_Witness ==
    /\ algorithm = "Genetic Algorithm"
    /\ pc = "ga_loop"
    /\ generation = 2
    /\ config.mutation_rate = 100
    /\ Len(population) = 2
    /\ population[1].chromosome[2] = 2 * (PERIODS - 1)
    /\ population[2].chromosome[2] = 0
    /\ best_individual.some

\* a configuration the stated constraints allow: populationSize >= 1,
\* tournamentSize >= 1, 0 <= eliteSize < populationSize, mutationRate in [0, 1]
AllowedConfig ==
    algorithm = "Genetic Algorithm"
    => /\ config.population_size >= 1
       /\ config.tournament_size >= 1
       /\ config.elite_size >= 0
       /\ config.elite_size < config.population_size
       /\ config.mutation_rate \in 0..100

\* C18: both searches end after a fixed number of steps: PSO.optimize makes
\* exactly n_iterations passes with n_particles*(n_iterations+1) evaluations in
\* all, GeneticAlgorithm.optimize makes exactly n_generations generation steps,
\* and each returns, for every allowed configuration.
C18_FixedStepCount ==
    (OptimizeEnded /\ AllowedConfig)
    => /\ pc = "returned"
       /\ algorithm = "PSO"
            => /\ iteration = n_iterations
               /\ evals = n_particles * (n_iterations + 1)
       /\ algorithm = "Genetic Algorithm" => generation = config.n_generations

\* the best fitness the optimizer object records
RecordedBest == IF algorithm = "PSO" THEN global_best_fitness ELSE best_fitness

\* C19: a second optimize call on an optimizer that completed a run is
\* self-contained: when it has evaluated a candidate of finite fitness it returns
\* a vector of the second call's solution size whose fitness is the recorded
\* best fitness, and that is the least fitness evaluated in the second call.
C19_SecondCallSelfContained ==
    (again /\ OptimizeEnded /\ SampleFits /\ ~all_inf)
    => /\ pc = "returned"
       /\ best_solution.some
       /\ Len(best_solution.v) = solution_size
       /\ RecordedBest = min_eval
       /\ TrueFitness(best_solution.v) = min_eval

\* C20: course deletion in manage_data needs confirmation: over any sequence of
\* add-course, delete-click and page-rerun events, a course with a valid
\* lecturer is removed only by a delete click that follows an earlier delete
\* click on that same course which showed the "Click again to confirm"
\* warning; the first delete click ever made on a course (a newly added course
\* that received the id of a deleted one included) never removes it.
C20_DeletionNeedsConfirmation ==
    [][\A i \in 1..Len(courses) :
          (/\ LecturerFound(courses[i])
           /\ \A k \in 1..Len(clicks'.serials) : clicks'.serials[k] # clicks.serials[i])
          => clicks.serials[i] \in clicks.warned]_vars


=============================================================================
